---- MODULE Spec2Model ----
(***************************************************************************)
(* State-machine model of webservice/run_app.py (oximachinetool): the      *)
(* Flask routes process_structure, process_example_structure,              *)
(* process_precomputed and set_feature_importance_level, and the two core  *)
(* functions process_structure_core and process_precomputed_core.          *)
(*                                                                         *)
(* Conventions                                                             *)
(*  - Real numbers are integers: the integer n stands for the real         *)
(*    n / One.  Fractional coordinates are such integers; the lattice      *)
(*    entries are plain integers, so a Cartesian component is again in     *)
(*    units of 1/One.                                                      *)
(*  - A float is a real with a significand of Precision bits: between 1/2  *)
(*    and 1 the floats lie two units apart, below 2^Precision units every  *)
(*    integer is a float.  The unit stands to 1.0 as 2^-54 does for a      *)
(*    double.  The sum inside the % operator is rounded to a float; the    *)
(*    products and sums of np.dot are kept exact.                          *)
(*  - A Python sequence index i (0-based) is the TLA+ index i + 1.         *)
(*  - A formatted string is the sequence of its pieces: the template text  *)
(*    followed by the str() of every '{}' argument (Format).               *)
(*  - time.time() is read in ticks relative to the entry of the running   *)
(*    core function; time passes while a collaborator runs.                *)
(*  - The locals of a running core function are a function from the names  *)
(*    that are bound so far to their values; reading a name outside its    *)
(*    domain is Python's UnboundLocalError.                                *)
(***************************************************************************)
EXTENDS Integers, Sequences, FiniteSets, TLC

\* ------------------------------------------------------------------ bounds
\* Bits of the significand of a float.
Precision == 2
\* Number of set_feature_importance_level POSTs that may be in flight at once.
NumSetters == 2
\* The latest reading of the clock, in ticks after a core function was entered.
MaxElapsed == 1
\* Ceiling on the atoms of an input cell (compute.utils.MAX_NUMBER_OF_ATOMS),
\* scaled down; inputs have up to MAX_NUMBER_OF_ATOMS + 1 atoms.
MAX_NUMBER_OF_ATOMS == 2

\* ------------------------------------------------------------- numbers
\* The integer One stands for the float 1.0: half a unit in the last place
\* of 1.0 is one unit.
One == 2 ^ (Precision + 1)

Abs(v) == IF v < 0 THEN 0 - v ELSE v

\* The distance between neighbouring floats of magnitude a.
RECURSIVE Spacing(_)
Spacing(a) == IF a < 2 ^ Precision THEN 1 ELSE 2 * Spacing(a \div 2)

IsFloat(v) == Abs(v) % Spacing(Abs(v)) = 0

\* The float nearest to the real v >= 0, ties to the even significand.
RoundToFloat(v) ==
    LET s == Spacing(v)
        lo == v - (v % s)
    IN IF 2 * (v % s) < s THEN lo
       ELSE IF 2 * (v % s) > s THEN lo + s
       ELSE IF (lo \div s) % 2 = 0 THEN lo ELSE lo + s

\* C fmod(x, y), y > 0: exact, with the sign of x.
Fmod(x, y) == IF x >= 0 THEN x % y ELSE 0 - ((0 - x) % y)

\* x % 1.0 of a float: fmod, and when the remainder is negative the float
\* sum of the remainder and 1.0.
FloatMod1(x) ==
    IF Fmod(x, One) < 0 THEN RoundToFloat(Fmod(x, One) + One) ELSE Fmod(x, One)

\* ------------------------------------------------------- external data
\* ase.data.chemical_symbols, restricted to the atomic numbers of the inputs.
chemical_symbols(num) ==
    CASE num = 1 -> "H"
      [] num = 8 -> "O"
      [] num = 26 -> "Fe"

\* conf.APPROXIMATE_MAPPING: named fidelity presets -> internal value.
APPROXIMATE_MAPPING == [low |-> "v_low", high |-> "v_high"]

\* conf.DEFAULT_APPROXIMATE as imported at start-up.
InitialApproximate == "v_default"

\* conf.EXAMPLEMAPPING: example names -> file names under compute/examples.
EXAMPLEMAPPING == [example1 |-> "example1.cif"]

\* conf.MODEL_VERSION
MODEL_VERSION == "model_version"

\* ------------------------------------------------------------ structures
\* The atoms the input files are built from: <<atomic number, fractional
\* position>>.  The second one lies outside the principal cell, at 1.5 and
\* at -0.25; the third one lies below 0 by half a unit in the last place of
\* 1.0.
AtomPool ==
    { <<26, <<0, 0, 0>> >>,
      <<8, <<One \div 2, One + One \div 2, 0 - One \div 4>> >>,
      <<1, <<0 - 1, One \div 2, 0>> >> }

\* The lattice of the input files (rows are the cell vectors).
InputCell == << <<2, 0, 0>>, <<1, 2, 0>>, <<0, 0, 3>> >>

AtomSeqs == UNION { [1..n -> AtomPool] : n \in 1..(MAX_NUMBER_OF_ATOMS + 1) }

\* A pymatgen Structure: lattice plus sites in file order.
MkStructure(cell, atoms) ==
    [ cell |-> cell,
      scaled_coords |-> [i \in 1..Len(atoms) |-> atoms[i][2]],
      atomic_numbers |-> [i \in 1..Len(atoms) |-> atoms[i][1]] ]

Structures == { MkStructure(InputCell, a) : a \in AtomSeqs }

\* compute.utils.tuple_from_pymatgen: (cell, scaled positions, atomic numbers)
tuple_from_pymatgen(s) == << s.cell, s.scaled_coords, s.atomic_numbers >>

NumAtoms(s) == Len(s.atomic_numbers)

HasOverlap(s) ==
    \E i, j \in 1..NumAtoms(s) : i < j /\ s.scaled_coords[i] = s.scaled_coords[j]

\* Text of an uploaded or example file: a CIF that parses to a structure, or
\* text no structure can be parsed from.
FileContents == { [kind |-> "cif", structure |-> s] : s \in Structures }
                  \cup { [kind |-> "garbage"] }

\* ------------------------------------------------------------ formatting
\* str.format: the template followed by the str() of its arguments.
Format(template, args) == <<template>> \o args

\* '{}'.format(n) of a number.
Str(n) == ToString(n)

\* Exceptions in flight: type and str(e).
Exc(type, text) == [type |-> type, text |-> text]

NoExc == [type |-> "none", text |-> <<>>]

FlaskRedirectException(msg) == Exc("FlaskRedirectException", msg)

UnboundLocal(name) ==
    Exc("UnboundLocalError",
        Format("local variable '{}' referenced before assignment", <<name>>))

\* ------------------------------------------------------- the reader
\* compute.utils.get_structure_tuple(filecontent, fileformat): the parsed
\* (structure_tuple, s), or the exception it raises.  Formats form a closed
\* set ("cif"); the atom-count check runs before the overlap check.
get_structure_tuple(filecontent, fileformat) ==
    IF fileformat # "cif"
    THEN [exc |-> Exc("UnknownFormatError", <<fileformat>>)]
    ELSE IF filecontent.kind # "cif"
    THEN [exc |-> Exc("ValueError", <<"Invalid cif file with no structures!">>)]
    ELSE IF NumAtoms(filecontent.structure) > MAX_NUMBER_OF_ATOMS
    THEN [exc |-> Exc("LargeStructureError", <<>>)]
    ELSE IF HasOverlap(filecontent.structure)
    THEN [exc |-> Exc("OverlapError", <<>>)]
    ELSE [exc |-> NoExc,
          structure_tuple |-> tuple_from_pymatgen(filecontent.structure),
          s |-> filecontent.structure]

\* ------------------------------------------- coordinate transformation
Min(a, b) == IF a <= b THEN a ELSE b

\* zip(a, b)
Zip(a, b) == [i \in 1..Min(Len(a), Len(b)) |-> <<a[i], b[i]>>]

\* A product that loses the last row.
Dot_DropsLastRow(positions, lattice) ==
    [i \in 1..(Len(positions) - 1) |->
        [j \in 1..3 |-> positions[i][1] * lattice[1][j]
                        + positions[i][2] * lattice[2][j]
                        + positions[i][3] * lattice[3][j]]]

\* np.dot(positions, lattice): row i is positions[i] . lattice
Dot(positions, lattice) ==
    [i \in 1..Len(positions) |->
        [j \in 1..3 |-> positions[i][1] * lattice[1][j]
                        + positions[i][2] * lattice[2][j]
                        + positions[i][3] * lattice[3][j]]]

\* positions % 1.0, componentwise
Mod1(positions) ==
    [i \in 1..Len(positions) |-> [j \in 1..3 |-> FloatMod1(positions[i][j])]]

\* [chemical_symbols[num] for num in numbers]
Symbols(numbers) == [i \in 1..Len(numbers) |-> chemical_symbols(numbers[i])]

\* A table whose labels run in the opposite order to its positions.
AtomTable_LabelsReversed(labels, positions) ==
    [i \in 1..Len(positions) |->
        << labels[Len(labels) + 1 - i], positions[i][1], positions[i][2],
           positions[i][3] >>]

\* [[label, coords[0], coords[1], coords[2]] for label, coords in zip(labels, positions)]
AtomTable(labels, positions) ==
    [i \in 1..Len(Zip(labels, positions)) |->
        << Zip(labels, positions)[i][1],
           Zip(labels, positions)[i][2][1],
           Zip(labels, positions)[i][2][2],
           Zip(labels, positions)[i][2][3] >>]

\* [[idx, coords[0], coords[1], coords[2]] for idx, coords in enumerate(vectors, start=1)]
VectorTable(vectors) ==
    [i \in 1..Len(vectors) |-> << i, vectors[i][1], vectors[i][2], vectors[i][3] >>]

\* A block without its count line.
XsfLines_NoCount(primitive_lattice, primitive_types, refolded) ==
    << <<"CRYSTAL">>, <<"PRIMVEC">> >>
    \o [i \in 1..Len(primitive_lattice) |->
          << Str(primitive_lattice[i][1]), Str(primitive_lattice[i][2]),
             Str(primitive_lattice[i][3]) >>]
    \o << <<"PRIMCOORD">> >>
    \o [i \in 1..Len(refolded) |->
          << Str(primitive_types[i]), Str(refolded[i][1]), Str(refolded[i][2]),
             Str(refolded[i][3]) >>]

\* The lines of the crystal-file block before '\n'.join; every line is the
\* sequence of its space-separated fields.
XsfLines(primitive_lattice, primitive_types, refolded) ==
    << <<"CRYSTAL">>, <<"PRIMVEC">> >>
    \o [i \in 1..Len(primitive_lattice) |->
          << Str(primitive_lattice[i][1]), Str(primitive_lattice[i][2]),
             Str(primitive_lattice[i][3]) >>]
    \o << <<"PRIMCOORD">>, << Str(Len(refolded)), "1" >> >>
    \o [i \in 1..Len(Zip(primitive_types, refolded)) |->
          << Str(Zip(primitive_types, refolded)[i][1]),
             Str(Zip(primitive_types, refolded)[i][2][1]),
             Str(Zip(primitive_types, refolded)[i][2][2]),
             Str(Zip(primitive_types, refolded)[i][2][3]) >>]

\* ------------------------------------------------- primitive reduction
Prefix(s, k) ==
    [ cell |-> s.cell,
      scaled_coords |-> SubSeq(s.scaled_coords, 1, k),
      atomic_numbers |-> SubSeq(s.atomic_numbers, 1, k) ]

\* What s.get_primitive_structure() may return: s itself (already
\* primitive) or a cell with fewer sites.
PrimitiveCandidates(s) == { Prefix(s, k) : k \in 1..NumAtoms(s) }

\* get_json_for_visualizer(s), p being s.get_primitive_structure()
get_json_for_visualizer(p) ==
    [ primitive_positions |-> tuple_from_pymatgen(p)[2],
      primitive_lattice |-> tuple_from_pymatgen(p)[1],
      primitive_types |-> tuple_from_pymatgen(p)[3] ]

\* ------------------------------------------------------------- state
VARIABLES
    DEFAULT_APPROXIMATE,  \* the module global read by get_explanations' caller
    req,                  \* the pipeline request in flight (route + core locals)
    inflight,             \* per preset, the set_feature_importance_level POSTs
                          \* that have assigned the global and not yet returned
    setResponse,          \* the latest answer of set_feature_importance_level
    lastStored,           \* history: the preset of the latest assignment
    lastCompleted,        \* history: the preset of the latest POST answered 204
    changedSince          \* history: the global was assigned after that answer

\* The state of the set_feature_importance_level requests and their history.
levelReqs == << inflight, setResponse, lastStored, lastCompleted, changedSince >>

vars == << DEFAULT_APPROXIMATE, req, levelReqs >>

\* No locals are bound.
NoLocals == [n \in {} |-> 0]

IdleReq ==
    [ pc |-> "idle", route |-> "none", fileformat |-> "none",
      filecontent |-> [kind |-> "none"], name |-> "none",
      locals |-> NoLocals,
      clock |-> 0,             \* time.time(), while a core function runs
      debug |-> <<>>,          \* the elapsed time the running core function
                               \* handed to logger.debug last: <<template, value>>
      calls |-> <<>>,          \* <<"call" | "return", collaborator>>, in order
      logs |-> <<>>,           \* reason tags handed to logme, in order
      flashes |-> <<>>,        \* flask.flash messages, in order
      exc |-> NoExc,           \* the exception leaving the core function
      assembly_exc |-> NoExc,  \* history: the exception raised inside the
                               \* assembly try block of the core function
      outcome |-> "none",      \* of the core function: "returned" | "raised"
      result |-> NoLocals,     \* the dict the core function returned
      response |-> "none",     \* of the route: "render" | "redirect" | "escaped"
      explain_level |-> "none" ] \* the level the core function handed to
                                 \* get_explanations, until the request is answered

NoResponse == [method |-> "none", samples |-> "none", status |-> "none"]

Init ==
    /\ DEFAULT_APPROXIMATE = InitialApproximate
    /\ req = IdleReq
    /\ inflight = [p \in DOMAIN APPROXIMATE_MAPPING |-> 0]
    /\ setResponse = NoResponse
    /\ lastStored = "none"
    /\ lastCompleted = "none"
    /\ changedSince = FALSE

Bound(name) == name \in DOMAIN req.locals

\* logme(logger, filecontent, fileformat, flask_request, call_source, reason=...)
logme(logs, reason) == Append(logs, reason)

\* raise e out of the core function, with the log it has written.
CoreRaise(r, logs, e) ==
    [r EXCEPT !.pc = "route_end", !.outcome = "raised", !.exc = e,
              !.logs = logs, !.locals = NoLocals, !.clock = 0, !.debug = <<>>]

\* The readings the clock may show when the collaborator a step calls is
\* over: the clock does not run backwards.
LaterReadings(r) == r.clock..MaxElapsed

\* The clock has moved on to the reading now.
Tick(r, now) == [r EXCEPT !.clock = now]

\* -------------------------------------------------------- route entries
\* The example file shipped under compute/examples.
ExampleContent ==
    [ kind |-> "cif",
      structure |-> MkStructure(InputCell,
                        << <<26, <<0, 0, 0>> >>,
                           <<8, <<One \div 2, One \div 2, One \div 2>> >> >>) ]

Begin(route, filecontent, fileformat, name, pc) ==
    [IdleReq EXCEPT !.pc = pc, !.route = route, !.filecontent = filecontent,
                    !.fileformat = fileformat, !.name = name]

\* A route that answers before it reaches its try block.
Answer(route, response, e) ==
    [IdleReq EXCEPT !.pc = "done", !.route = route, !.response = response,
                    !.exc = e]

\* process_structure(): GET; POST without the file part; POST whose bytes are
\* not UTF-8; POST of a text file.
process_structure_entry ==
    /\ req.pc = "idle"
    /\ \/ req' = Answer("process_structure", "redirect", NoExc)
       \/ req' = Answer("process_structure", "escaped",
                        Exc("UnicodeDecodeError", <<"invalid start byte">>))
       \/ \E fc \in FileContents :
            req' = Begin("process_structure", fc, "cif", "none", "core_read")
    /\ UNCHANGED << DEFAULT_APPROXIMATE, levelReqs >>

\* process_example_structure(): GET; POST with a name EXAMPLEMAPPING lacks;
\* POST whose example file cannot be opened; POST of an example.
process_example_structure_entry ==
    /\ req.pc = "idle"
    /\ \/ req' = Answer("process_example_structure", "redirect", NoExc)
       \/ \E examplestructure \in {"example1", "<none>"} :
            IF examplestructure \notin DOMAIN EXAMPLEMAPPING
            THEN req' = Answer("process_example_structure", "escaped",
                               Exc("KeyError", <<examplestructure>>))
            ELSE \/ req' = Answer("process_example_structure", "escaped",
                                  Exc("FileNotFoundError",
                                      <<"No such file or directory",
                                        EXAMPLEMAPPING[examplestructure]>>))
                 \/ req' = Begin("process_example_structure", ExampleContent,
                                 "cif", "none", "core_read")
    /\ UNCHANGED << DEFAULT_APPROXIMATE, levelReqs >>

\* The ids of the precomputed records.
PrecomputedNames == {"ABAVIJ"}

\* process_precomputed(name): GET runs the core function; any other method
\* the route accepts (HEAD) redirects.
process_precomputed_entry ==
    /\ req.pc = "idle"
    /\ \E name \in PrecomputedNames :
         \/ req' = Answer("process_precomputed", "redirect", NoExc)
         \/ req' = Begin("process_precomputed", [kind |-> "none"], "cif", name,
                         "pre_parse")
    /\ UNCHANGED << DEFAULT_APPROXIMATE, levelReqs >>

\* process_structure_core called by another caller than the routes, with the
\* format tag of its choice.
process_structure_core_call ==
    /\ req.pc = "idle"
    /\ \E fileformat \in {"cif", "xyz"} :
         req' = Begin("direct", ExampleContent, fileformat, "none", "core_read")
    /\ UNCHANGED << DEFAULT_APPROXIMATE, levelReqs >>

\* ------------------------------------------------------------ messages
MsgUnknownFormat(fileformat) == Format("Unknown format '{}'", <<fileformat>>)

MsgOverlap == <<"Sorry, there seem to be overlapping errors in the input structure">>

MsgTooLarge(limit, count) ==
    Format("Sorry, this online visualizer is limited to {} atoms in the input cell, while your structure has {} atoms.",
           <<Str(limit), Str(count)>>)

MsgLoadFile(fileformat, e) ==
    Format("I tried my best, but I wasn't able to load your file in format '{}'... because of {}",
           <<fileformat>> \o e.text)

MsgLoadResult(name, e) ==
    Format("I tried my best, but I wasn't able to load your result for '{}'... because of {}",
           <<name>> \o e.text)

MsgFeaturizationFailed ==
    <<"Sorry, the featurization failed. Make sure that your structure is not pathological (e.g. containing overlapping atoms).">>

MsgPredictionFailed ==
    <<"Sorry, the featurization failed. Make sure that your structure is not pathological (e.g., containing overlapping atoms).">>

MsgUnable(e) == Format("Unable to process the structure, sorry... {}", e.text)

MsgMaybeOverlap == <<"Maybe you have overlapping atoms?">>

MsgTooManyAtoms == <<"You seem to have too many atoms in your structure to run on the web">>

\* ------------------------------------- process_structure_core: reading
\* except UnknownFormatError
OnUnknownFormatError(r) ==
    CoreRaise(r, logme(r.logs, "unknownformat"),
              FlaskRedirectException(MsgUnknownFormat(r.fileformat)))

\* A handler that logs the overlap and lets the function go on.
OnOverlapError_NoRaise(r) ==
    [r EXCEPT !.pc = "core_feat", !.logs = logme(@, "overlap")]

\* except OverlapError
OnOverlapError(r) ==
    CoreRaise(r, logme(r.logs, "overlap"), FlaskRedirectException(MsgOverlap))

\* except LargeStructureError: the arguments of logme read structure_tuple,
\* which the failed assignment of the try block never bound.
OnLargeStructureError(r) ==
    IF "structure_tuple" \in DOMAIN r.locals
    THEN CoreRaise(r, logme(r.logs, "toolarge"),
                   FlaskRedirectException(
                       MsgTooLarge(MAX_NUMBER_OF_ATOMS, Len(r.locals.structure_tuple[2]))))
    ELSE CoreRaise(r, r.logs, UnboundLocal("structure_tuple"))

\* except Exception as e
OnReaderException(r, e) ==
    CoreRaise(r, logme(r.logs, "exception"),
              FlaskRedirectException(MsgLoadFile(r.fileformat, e)))

\* structure_tuple, s = get_structure_tuple(filecontent, fileformat) returned;
\* lines 337-338: parsing_time = time.time() - start_time
ReaderReturned(r, got) ==
    [r EXCEPT !.pc = "core_feat",
              !.calls = Append(@, <<"return", "get_structure_tuple">>),
              !.locals = [ structure_tuple |-> got.structure_tuple, s |-> got.s,
                           parsing_time |-> r.clock - r.locals.start_time ] @@ @,
              !.debug = << "Successfully read structure in {}",
                                     r.clock - r.locals.start_time >>]

\* Lines 274-338: start_time, form_data, the reader call, its four handlers
\* and parsing_time.
core_read ==
    /\ req.pc = "core_read"
    /\ LET r == [req EXCEPT !.calls = Append(@, <<"call", "get_structure_tuple">>),
                            !.locals = [start_time |-> req.clock, form_data |-> "form"]]
           got == get_structure_tuple(req.filecontent, req.fileformat)
       IN CASE got.exc.type = "none" ->
                   \E now \in LaterReadings(r) : req' = ReaderReturned(Tick(r, now), got)
            [] got.exc.type = "UnknownFormatError" -> req' = OnUnknownFormatError(r)
            [] got.exc.type = "OverlapError" -> req' = OnOverlapError(r)
            [] got.exc.type = "LargeStructureError" -> req' = OnLargeStructureError(r)
            [] OTHER -> req' = OnReaderException(r, got.exc)
    /\ UNCHANGED << DEFAULT_APPROXIMATE, levelReqs >>

\* --------------------------------- process_structure_core: featurizing
\* The 0-based indices of the metal sites of s.
MetalIndices(s) ==
    LET idx == SelectSeq([i \in 1..NumAtoms(s) |-> i],
                         LAMBDA i : s.atomic_numbers[i] = 26)
    IN [k \in 1..Len(idx) |-> idx[k] - 1]

\* What _featurize_single(s) returns.
FeatureBundle(s) ==
    [ feature_array |-> [k \in 1..Len(MetalIndices(s)) |-> "feature_row"],
      feature_value_dict |->
          [k \in 1..Len(MetalIndices(s)) |-> <<MetalIndices(s)[k], "feature_values">>],
      metal_indices |-> MetalIndices(s),
      feature_names |-> <<"feature_name">> ]

\* _featurize_single(s) returned; line 376 logs time.time() - feat_start
FeaturizeReturned(r) ==
    [r EXCEPT !.pc = "core_pred",
              !.calls = Append(@, <<"return", "_featurize_single">>),
              !.locals = FeatureBundle(r.locals.s) @@ @,
              !.debug = << "Featurization completed in {}",
                                     r.clock - r.locals.feat_start >>]

\* A handler that logs the featurization failure and lets the function go on.
OnFeaturizationException_NoRaise(r) ==
    [r EXCEPT !.pc = "core_pred", !.logs = logme(@, "featurizationexception")]

\* except Exception as e (featurization)
OnFeaturizationException(r) ==
    CoreRaise(r, logme(r.logs, "featurizationexception"),
              FlaskRedirectException(MsgFeaturizationFailed))

\* Lines 354-376
core_featurize ==
    /\ req.pc = "core_feat"
    /\ LET r == [req EXCEPT !.calls = Append(@, <<"call", "_featurize_single">>),
                            !.locals = [feat_start |-> req.clock] @@ @]
       IN \/ \E now \in LaterReadings(r) : req' = FeaturizeReturned(Tick(r, now))
          \/ req' = OnFeaturizationException(r)
    /\ UNCHANGED << DEFAULT_APPROXIMATE, levelReqs >>

\* --------------------------------- process_structure_core: predicting
\* except UnboundLocalError as e
OnPredictionUnboundLocalError(r) ==
    CoreRaise(r, logme(r.logs, "predictionexception"),
              FlaskRedirectException(MsgPredictionFailed))

\* Line 432: logger.debug('Prediction done in {}'.format(prediction_start - time.time()))
PredictionDone(r) ==
    [r EXCEPT !.pc = "core_asm",
              !.debug = << "Prediction done in {}",
                                     r.locals.prediction_start - r.clock >>]

\* except Exception as e: print, logme, and no raise; the function goes on.
OnPredictionException(r) ==
    PredictionDone([r EXCEPT !.logs = logme(@, "predictionexception")])

PredictionsReturned(r) ==
    [r EXCEPT !.pc = "core_expl",
              !.calls = Append(@, <<"return", "predictions">>),
              !.locals = [ metal_sites |-> r.locals.feature_value_dict,
                           predictions_output |-> "predictions_output",
                           prediction_labels |-> "prediction_labels",
                           class_idx |-> "class_idx" ] @@ @]

\* Lines 392-395, the handlers of the try block and line 432
core_predict ==
    /\ req.pc = "core_pred"
    /\ LET r == [req EXCEPT !.calls = Append(@, <<"call", "predictions">>),
                            !.locals = [prediction_start |-> req.clock] @@ @]
       IN \/ \E now \in LaterReadings(r) : req' = PredictionsReturned(Tick(r, now))
          \/ req' = OnPredictionUnboundLocalError(r)
          \/ \E now \in LaterReadings(r) : req' = OnPredictionException(Tick(r, now))
    /\ UNCHANGED << DEFAULT_APPROXIMATE, levelReqs >>

\* The value conf.DEFAULT_APPROXIMATE had when it was imported.
ExplainLevel_AsImported(r) == InitialApproximate

\* The fifth argument of get_explanations: the module global, read when the
\* call is made.
ExplainLevel(r) == DEFAULT_APPROXIMATE

ExplanationsReturned(r) ==
    PredictionDone(
        [r EXCEPT !.calls = Append(@, <<"return", "get_explanations">>),
                  !.locals = [featurization_output |-> "featurization_output"] @@ @])

\* Lines 397-403, the handlers of the try block and line 432
core_explain ==
    /\ req.pc = "core_expl"
    /\ LET r == [req EXCEPT !.calls = Append(@, <<"call", "get_explanations">>),
                            !.explain_level = ExplainLevel(req)]
       IN \/ \E now \in LaterReadings(r) : req' = ExplanationsReturned(Tick(r, now))
          \/ req' = OnPredictionUnboundLocalError(r)
          \/ \E now \in LaterReadings(r) : req' = OnPredictionException(Tick(r, now))
    /\ UNCHANGED << DEFAULT_APPROXIMATE, levelReqs >>

\* --------------------------------- process_structure_core: assembling
\* The names the try block of lines 434-498 binds, given the reader's tuple
\* and get_json_for_visualizer's result.  raw_code, the escaped JSON text, is
\* represented by the dictionary it serialises; now is the reading of
\* time.time() in the last statement.
AssemblyLocals(structure_tuple, path_results, start_time, now) ==
    LET in_json_data == [ cell |-> structure_tuple[1],
                          scaled_coords |-> structure_tuple[2],
                          atomic_numbers |-> structure_tuple[3] ]
        inputstructure_positions_cartesian ==
            Dot(in_json_data.scaled_coords, in_json_data.cell)
        primitive_positions_cartesian ==
            Dot(path_results.primitive_positions, path_results.primitive_lattice)
        primitive_positions_cartesian_refolded ==
            Dot(Mod1(path_results.primitive_positions), path_results.primitive_lattice)
        primitive_symbols == Symbols(path_results.primitive_types)
        inputstructure_symbols == Symbols(in_json_data.atomic_numbers)
    IN [ in_json_data |-> in_json_data,
         path_results |-> path_results,
         primitive_positions_cartesian_refolded |-> primitive_positions_cartesian_refolded,
         raw_code |->
             [ primitive_lattice |-> path_results.primitive_lattice,
               primitive_positions |-> path_results.primitive_positions,
               primitive_positions_cartesian |-> primitive_positions_cartesian,
               primitive_types |-> path_results.primitive_types,
               primitive_symbols |-> primitive_symbols ],
         inputstructure_cell_vectors |-> VectorTable(in_json_data.cell),
         inputstructure_atoms_scaled |->
             AtomTable(inputstructure_symbols, in_json_data.scaled_coords),
         inputstructure_atoms_cartesian |->
             AtomTable(inputstructure_symbols, inputstructure_positions_cartesian),
         atoms_scaled |-> AtomTable(primitive_symbols, path_results.primitive_positions),
         atoms_cartesian |-> AtomTable(primitive_symbols, primitive_positions_cartesian),
         direct_vectors |-> VectorTable(path_results.primitive_lattice),
         xsfstructure |-> XsfLines(path_results.primitive_lattice,
                                   path_results.primitive_types,
                                   primitive_positions_cartesian_refolded),
         compute_time |-> now - start_time ]

\* The names of AssemblyLocals in the order in which the statements of the
\* try block bind them.
AssemblyOrder ==
    << "in_json_data", "path_results", "primitive_positions_cartesian_refolded",
       "raw_code", "inputstructure_cell_vectors", "inputstructure_atoms_scaled",
       "inputstructure_atoms_cartesian", "atoms_scaled", "atoms_cartesian",
       "direct_vectors", "xsfstructure", "compute_time" >>

\* What the try block has bound when the statement that binds
\* AssemblyOrder[k] raises: the names before it.
BoundBefore(all, k) == [n \in { AssemblyOrder[i] : i \in 1..(k - 1) } |-> all[n]]

\* What get_json_for_visualizer raises when the primitive reduction fails.
ReductionError == Exc("ValueError", <<"primitive cell">>)

\* The exception of the statement that binds AssemblyOrder[k]: the one
\* get_json_for_visualizer raises, or one any statement can raise.
AssemblyFailure(k) ==
    IF AssemblyOrder[k] = "path_results" THEN ReductionError
    ELSE Exc("MemoryError", <<>>)

\* The collaborator calls of a try block that raises at the statement
\* binding AssemblyOrder[k].
AssemblyCalls(calls, k) ==
    IF AssemblyOrder[k] = "in_json_data" THEN calls
    ELSE IF AssemblyOrder[k] = "path_results"
    THEN Append(calls, <<"call", "get_json_for_visualizer">>)
    ELSE calls \o << <<"call", "get_json_for_visualizer">>,
                     <<"return", "get_json_for_visualizer">> >>

\* The locals the return statement reads, in the order of its keyword arguments.
ReturnArgs ==
    << "raw_code", "prediction_labels", "metal_indices", "predictions_output",
       "featurization_output", "inputstructure_cell_vectors",
       "inputstructure_atoms_scaled", "inputstructure_atoms_cartesian",
       "atoms_scaled", "direct_vectors", "atoms_cartesian", "compute_time",
       "xsfstructure", "feature_value_dict" >>

\* return dict(raw_code=raw_code, ..., feature_values=feature_value_dict)
OutputBundle(l) ==
    [ raw_code |-> l.raw_code,
      prediction_labels |-> l.prediction_labels,
      metal_indices |-> l.metal_indices,
      predictions_output |-> l.predictions_output,
      featurization_output |-> l.featurization_output,
      inputstructure_cell_vectors |-> l.inputstructure_cell_vectors,
      inputstructure_atoms_scaled |-> l.inputstructure_atoms_scaled,
      inputstructure_atoms_cartesian |-> l.inputstructure_atoms_cartesian,
      atoms_scaled |-> l.atoms_scaled,
      direct_vectors |-> l.direct_vectors,
      atoms_cartesian |-> l.atoms_cartesian,
      compute_time |-> l.compute_time,
      model_version |-> MODEL_VERSION,
      xsfstructure |-> l.xsfstructure,
      feature_values |-> l.feature_value_dict ]

\* A return statement that reads None for a name that is not bound.
ReturnDict_UnboundAsNone(r) ==
    [r EXCEPT !.pc = "route_end", !.outcome = "returned",
              !.result = OutputBundle(
                             [n \in { ReturnArgs[i] : i \in 1..Len(ReturnArgs) } |->
                                 IF n \in DOMAIN r.locals THEN r.locals[n] ELSE "None"]),
              !.locals = NoLocals, !.clock = 0, !.debug = <<>>]

\* The return statement: the first unbound name it reads raises
\* UnboundLocalError, else the dict is returned.
ReturnDict(r) ==
    LET unbound == { i \in 1..Len(ReturnArgs) : ReturnArgs[i] \notin DOMAIN r.locals }
    IN IF unbound # {}
       THEN CoreRaise(r, r.logs,
                      UnboundLocal(ReturnArgs[CHOOSE i \in unbound :
                                                \A j \in unbound : i <= j]))
       ELSE [r EXCEPT !.pc = "route_end", !.outcome = "returned",
                      !.result = OutputBundle(r.locals), !.locals = NoLocals,
                      !.clock = 0, !.debug = <<>>]

\* except Exception as e: logme(reason='codeexception') and raise
OnAssemblyException(r, e) ==
    CoreRaise([r EXCEPT !.assembly_exc = e], logme(r.logs, "codeexception"), e)

\* Lines 434-533: the assembly try block, its handler and the return
\* statement.
core_assemble ==
    /\ req.pc = "core_asm"
    /\ \/ \E p \in PrimitiveCandidates(req.locals.s) : \E now \in LaterReadings(req) :
            req' = ReturnDict(
                       [req EXCEPT !.clock = now,
                                   !.calls = @ \o << <<"call", "get_json_for_visualizer">>,
                                                     <<"return", "get_json_for_visualizer">> >>,
                                   !.locals = AssemblyLocals(req.locals.structure_tuple,
                                                             get_json_for_visualizer(p),
                                                             req.locals.start_time, now) @@ @])
       \/ \E k \in 1..Len(AssemblyOrder) :
            req' = OnAssemblyException(
                       [req EXCEPT !.calls = AssemblyCalls(@, k)], AssemblyFailure(k))
    /\ UNCHANGED << DEFAULT_APPROXIMATE, levelReqs >>

\* ------------------------------------------- process_precomputed_core
\* os.path.join(THIS_DIR, 'compute', 'precomputed', folder, name + suffix),
\* as the pieces of the path; str() of a FileNotFoundError quotes the path.
FileNotFound(folder, name, suffix) ==
    Exc("FileNotFoundError",
        <<"[Errno 2] No such file or directory:", folder, name, suffix>>)

\* The structure stored under a precomputed id.
PrecomputedStructure(name) == ExampleContent.structure

\* The payload stored under a precomputed id.
PrecomputedDict(name) ==
    FeatureBundle(PrecomputedStructure(name)) @@
    [ metal_sites |-> FeatureBundle(PrecomputedStructure(name)).feature_value_dict,
      predictions_output |-> "predictions_output",
      prediction_labels |-> "prediction_labels",
      featurization_output |-> "featurization_output" ]

\* except Exception as e (lines 128-132): the message names the file format.
OnStructureLoadException(r, e) ==
    CoreRaise(r, r.logs, FlaskRedirectException(MsgLoadFile("cif", e)))

\* CifParser(...).get_structures()[0] and tuple_from_pymatgen returned;
\* lines 134-135: parsing_time = start_time - time.time()
StructureLoaded(r) ==
    [r EXCEPT !.pc = "pre_pickle",
              !.calls = Append(@, <<"return", "CifParser">>),
              !.locals = [ fileformat |-> "cif",
                           s |-> PrecomputedStructure(r.name),
                           structure_tuple |->
                               tuple_from_pymatgen(PrecomputedStructure(r.name)),
                           parsing_time |-> r.locals.start_time - r.clock ] @@ @,
              !.debug = << "Successfully read structure in {}",
                                     r.locals.start_time - r.clock >>]

\* Lines 114-135
precomputed_parse ==
    /\ req.pc = "pre_parse"
    /\ LET r == [req EXCEPT !.calls = Append(@, <<"call", "CifParser">>),
                            !.locals = [start_time |-> req.clock]]
       IN \/ \E now \in LaterReadings(r) : req' = StructureLoaded(Tick(r, now))
          \/ req' = OnStructureLoadException(r, FileNotFound("structures", r.name, ".cif"))
          \/ req' = OnStructureLoadException(
                        r, Exc("ValueError", <<"Invalid cif file with no structures!">>))
    /\ UNCHANGED << DEFAULT_APPROXIMATE, levelReqs >>

\* except Exception as e (lines 152-155): the message names the id.
OnPayloadLoadException(r, e) ==
    CoreRaise(r, r.logs, FlaskRedirectException(MsgLoadResult(r.name, e)))

\* Lines 138-157: load_pickle and the eight lookups; the payload may be
\* missing, unreadable, or lack a key.
precomputed_pickle ==
    /\ req.pc = "pre_pickle"
    /\ LET r == [req EXCEPT !.calls = Append(@, <<"call", "load_pickle">>)]
       IN \/ \E now \in LaterReadings(r) :
               req' = [r EXCEPT !.pc = "pre_asm",
                                !.clock = now,
                                !.calls = Append(@, <<"return", "load_pickle">>),
                                !.locals = PrecomputedDict(r.name) @@ @]
          \/ req' = OnPayloadLoadException(r, FileNotFound("precomputed", r.name, ".pkl"))
          \/ req' = OnPayloadLoadException(
                        r, Exc("UnpicklingError", <<"invalid load key">>))
          \/ req' = OnPayloadLoadException(r, Exc("KeyError", <<"'predictions_output'">>))
    /\ UNCHANGED << DEFAULT_APPROXIMATE, levelReqs >>

\* The names the try block of lines 159-223 binds (the same statements as
\* lines 434-498 of the live path).
PrecomputedAssemblyLocals(structure_tuple, path_results, start_time, now) ==
    LET in_json_data == [ cell |-> structure_tuple[1],
                          scaled_coords |-> structure_tuple[2],
                          atomic_numbers |-> structure_tuple[3] ]
        inputstructure_positions_cartesian ==
            Dot(in_json_data.scaled_coords, in_json_data.cell)
        primitive_positions_cartesian ==
            Dot(path_results.primitive_positions, path_results.primitive_lattice)
        primitive_positions_cartesian_refolded ==
            Dot(Mod1(path_results.primitive_positions), path_results.primitive_lattice)
        primitive_symbols == Symbols(path_results.primitive_types)
        inputstructure_symbols == Symbols(in_json_data.atomic_numbers)
    IN [ in_json_data |-> in_json_data,
         path_results |-> path_results,
         primitive_positions_cartesian_refolded |-> primitive_positions_cartesian_refolded,
         raw_code |->
             [ primitive_lattice |-> path_results.primitive_lattice,
               primitive_positions |-> path_results.primitive_positions,
               primitive_positions_cartesian |-> primitive_positions_cartesian,
               primitive_types |-> path_results.primitive_types,
               primitive_symbols |-> primitive_symbols ],
         inputstructure_cell_vectors |-> VectorTable(in_json_data.cell),
         inputstructure_atoms_scaled |->
             AtomTable(inputstructure_symbols, in_json_data.scaled_coords),
         inputstructure_atoms_cartesian |->
             AtomTable(inputstructure_symbols, inputstructure_positions_cartesian),
         atoms_scaled |-> AtomTable(primitive_symbols, path_results.primitive_positions),
         atoms_cartesian |-> AtomTable(primitive_symbols, primitive_positions_cartesian),
         direct_vectors |-> VectorTable(path_results.primitive_lattice),
         xsfstructure |-> XsfLines(path_results.primitive_lattice,
                                   path_results.primitive_types,
                                   primitive_positions_cartesian_refolded),
         compute_time |-> now - start_time ]

\* except Exception as e (lines 225-226): logger.debug only; the function
\* goes on to its return statement with what the try block had bound.
OnPrecomputedAssemblyException(r, e) == ReturnDict([r EXCEPT !.assembly_exc = e])

\* Lines 159-245: the assembly try block, its handler and the return
\* statement.
precomputed_assemble ==
    /\ req.pc = "pre_asm"
    /\ \E p \in PrimitiveCandidates(req.locals.s) : \E now \in LaterReadings(req) :
         LET all == PrecomputedAssemblyLocals(req.locals.structure_tuple,
                                              get_json_for_visualizer(p),
                                              req.locals.start_time, now)
         IN \/ req' = ReturnDict(
                           [req EXCEPT !.clock = now,
                                       !.calls = @ \o << <<"call", "get_json_for_visualizer">>,
                                                         <<"return", "get_json_for_visualizer">> >>,
                                       !.locals = all @@ @])
            \/ \E k \in 1..Len(AssemblyOrder) :
                 req' = OnPrecomputedAssemblyException(
                            [req EXCEPT !.calls = AssemblyCalls(@, k),
                                        !.locals = BoundBefore(all, k) @@ @],
                            AssemblyFailure(k))
    /\ UNCHANGED << DEFAULT_APPROXIMATE, levelReqs >>

\* ---------------------------------------------------------- route ends
Flash(r, msg) ==
    [r EXCEPT !.pc = "done", !.flashes = Append(@, msg), !.response = "redirect",
              !.explain_level = "none"]

\* The except clauses of process_structure and process_example_structure.
StructureRouteExcept(r, e) ==
    CASE e.type = "FlaskRedirectException" -> Flash(r, e.text)
      [] e.type = "OverlapError" -> Flash(r, MsgMaybeOverlap)
      [] e.type = "LargeStructureError" -> Flash(r, MsgTooManyAtoms)
      [] OTHER -> Flash(r, MsgUnable(e))

\* The except clauses of process_precomputed.
PrecomputedRouteExcept(r, e) ==
    CASE e.type = "FlaskRedirectException" -> Flash(r, e.text)
      [] OTHER -> Flash(r, MsgUnable(e))

\* What flask.render_template raises when the template fails.
TemplateError == Exc("TemplateError", <<"template">>)

Rendered(r) == [r EXCEPT !.pc = "done", !.response = "render", !.explain_level = "none"]

\* Lines 600-620 and 638-658: the rest of the try block and its handlers.
structure_route_end ==
    /\ req.pc = "route_end"
    /\ req.route \in {"process_structure", "process_example_structure"}
    /\ IF req.outcome = "raised"
       THEN req' = StructureRouteExcept(req, req.exc)
       ELSE \/ req' = Rendered(req)
            \/ req' = StructureRouteExcept(req, TemplateError)
    /\ UNCHANGED << DEFAULT_APPROXIMATE, levelReqs >>

\* Lines 670-683
precomputed_route_end ==
    /\ req.pc = "route_end"
    /\ req.route = "process_precomputed"
    /\ IF req.outcome = "raised"
       THEN req' = PrecomputedRouteExcept(req, req.exc)
       ELSE \/ req' = Rendered(req)
            \/ req' = PrecomputedRouteExcept(req, TemplateError)
    /\ UNCHANGED << DEFAULT_APPROXIMATE, levelReqs >>

\* The other caller of process_structure_core receives the dict or the
\* exception.
direct_call_end ==
    /\ req.pc = "route_end"
    /\ req.route = "direct"
    /\ req' = [req EXCEPT !.pc = "done", !.explain_level = "none"]
    /\ UNCHANGED << DEFAULT_APPROXIMATE, levelReqs >>

\* The request is over; the worker takes the next one.
next_request ==
    /\ req.pc = "done"
    /\ req' = IdleReq
    /\ UNCHANGED << DEFAULT_APPROXIMATE, levelReqs >>

\* ------------------------------------------ set_feature_importance_level
\* The values of the form field 'samples' ('<none>' when it is absent).
SampleInputs == DOMAIN APPROXIMATE_MAPPING \cup {"<none>"}

InFlight == { p \in DOMAIN APPROXIMATE_MAPPING : inflight[p] > 0 }

RECURSIVE SumInFlight(_)
SumInFlight(presets) ==
    IF presets = {} THEN 0
    ELSE LET p == CHOOSE q \in presets : TRUE
         IN inflight[p] + SumInFlight(presets \ {p})

\* Lines 583-584: GET redirects.
set_level_get ==
    /\ setResponse' = [method |-> "GET", samples |-> "none", status |-> "redirect"]
    /\ UNCHANGED << DEFAULT_APPROXIMATE, req, inflight, lastStored, lastCompleted,
                    changedSince >>

\* Lines 573-577: POST, the lookup and the assignment to the module global.
set_level_post_store(samples) ==
    /\ samples \in DOMAIN APPROXIMATE_MAPPING
    /\ SumInFlight(DOMAIN APPROXIMATE_MAPPING) < NumSetters
    /\ DEFAULT_APPROXIMATE' = APPROXIMATE_MAPPING[samples]
    /\ inflight' = [inflight EXCEPT ![samples] = @ + 1]
    /\ lastStored' = samples
    /\ changedSince' = (lastCompleted # "none")
    /\ UNCHANGED << req, setResponse, lastCompleted >>

\* A handler that falls back to the start-up default when the lookup fails.
set_level_post_invalid_Resets(samples) ==
    /\ samples \notin DOMAIN APPROXIMATE_MAPPING
    /\ DEFAULT_APPROXIMATE' = InitialApproximate
    /\ setResponse' = [method |-> "POST", samples |-> samples, status |-> "redirect"]
    /\ UNCHANGED << req, inflight, lastStored, lastCompleted, changedSince >>

\* Lines 573-577 and 580-582: POST, the lookup raises KeyError; the handler
\* logs it and redirects.
set_level_post_invalid(samples) ==
    /\ samples \notin DOMAIN APPROXIMATE_MAPPING
    /\ setResponse' = [method |-> "POST", samples |-> samples, status |-> "redirect"]
    /\ UNCHANGED << DEFAULT_APPROXIMATE, req, inflight, lastStored, lastCompleted,
                    changedSince >>

\* Lines 578-579: logger.debug and return ('', 204)
set_level_post_return(samples) ==
    /\ samples \in InFlight
    /\ inflight' = [inflight EXCEPT ![samples] = @ - 1]
    /\ setResponse' = [method |-> "POST", samples |-> samples, status |-> "204"]
    /\ lastCompleted' = samples
    /\ changedSince' = FALSE
    /\ UNCHANGED << DEFAULT_APPROXIMATE, req, lastStored >>

\* ------------------------------------------------------- specification
Next ==
    \/ process_structure_entry
    \/ process_example_structure_entry
    \/ process_precomputed_entry
    \/ process_structure_core_call
    \/ core_read
    \/ core_featurize
    \/ core_predict
    \/ core_explain
    \/ core_assemble
    \/ precomputed_parse
    \/ precomputed_pickle
    \/ precomputed_assemble
    \/ structure_route_end
    \/ precomputed_route_end
    \/ direct_call_end
    \/ next_request
    \/ set_level_get
    \/ \E samples \in SampleInputs : set_level_post_store(samples)
    \/ \E samples \in SampleInputs : set_level_post_invalid(samples)
    \/ \E samples \in SampleInputs : set_level_post_return(samples)

Spec == Init /\ [][Next]_vars

\* ================================================================ claims
FlaskRoutes == {"process_structure", "process_example_structure", "process_precomputed"}

LiveRoutes == {"process_structure", "process_example_structure", "direct"}

Called(name) == \E i \in 1..Len(req.calls) : req.calls[i] = <<"call", name>>

Returned(name) == \E i \in 1..Len(req.calls) : req.calls[i] = <<"return", name>>

\* The collaborator was called and raised.
Raised(name) == Called(name) /\ ~Returned(name)

\* The exception get_structure_tuple raised in this request ("none": it
\* returned, or was not called).
ReaderFailure ==
    IF req.route \in LiveRoutes /\ Raised("get_structure_tuple")
    THEN get_structure_tuple(req.filecontent, req.fileformat).exc.type
    ELSE "none"

\* The messages the request has ended with: the flashed ones, or for the
\* other caller the message of the exception it received.
UserMessages ==
    IF req.route = "direct"
    THEN IF req.outcome = "raised" THEN <<req.exc.text>> ELSE <<>>
    ELSE req.flashes

\* C1: whenever get_structure_tuple fails (whatever it raises), the core
\* function has ended with an exception, the request never renders a result,
\* and neither _featurize_single nor predictions nor get_explanations has
\* been invoked for it.
C1_ReaderFailureStopsPipeline ==
    ReaderFailure # "none" =>
        /\ req.pc \in {"route_end", "done"}
        /\ req.outcome = "raised"
        /\ req.response # "render"
        /\ ~Called("_featurize_single")
        /\ ~Called("predictions")
        /\ ~Called("get_explanations")

\* C1 witness: an upload with overlapping atoms was answered with a flashed
\* message and a redirect, the reader being the only collaborator invoked.
C1_Witness ==
    /\ ReaderFailure = "OverlapError"
    /\ req.pc = "done"
    /\ req.response = "redirect"
    /\ req.flashes = <<MsgOverlap>>
    /\ req.calls = << <<"call", "get_structure_tuple">> >>

\* C2: predictions is invoked only after _featurize_single has returned in
\* the same request, get_explanations only after predictions has returned;
\* when _featurize_single raises, neither is ever invoked, the core function
\* ends with an exception and the one message shown is the
\* featurization-failure message.
C2_FeaturizeBeforePredict ==
    /\ \A i \in 1..Len(req.calls) :
         /\ req.calls[i] = <<"call", "predictions">> =>
              \E j \in 1..(i - 1) : req.calls[j] = <<"return", "_featurize_single">>
         /\ req.calls[i] = <<"call", "get_explanations">> =>
              /\ \E j \in 1..(i - 1) : req.calls[j] = <<"return", "_featurize_single">>
              /\ \E j \in 1..(i - 1) : req.calls[j] = <<"return", "predictions">>
    /\ Raised("_featurize_single") =>
         /\ req.pc \in {"route_end", "done"}
         /\ req.outcome = "raised"
         /\ req.exc = FlaskRedirectException(MsgFeaturizationFailed)
         /\ ~Called("predictions")
         /\ ~Called("get_explanations")
         /\ req.pc = "done" => UserMessages = <<MsgFeaturizationFailed>>

\* C2 witness: a request whose featurization raised has ended with the
\* featurization-failure message flashed.
C2_Witness ==
    /\ Raised("_featurize_single")
    /\ req.pc = "done"
    /\ req.route = "process_structure"
    /\ req.flashes = <<MsgFeaturizationFailed>>
    /\ req.response = "redirect"

\* The number of entries of seq equal to x.
Count(seq, x) == Cardinality({ i \in 1..Len(seq) : seq[i] = x })

\* C3: when the reader fails with LargeStructureError, the one message the
\* user is shown is the too-large message, carrying the limit and the exact
\* atom count of the structure.
C3_TooLargeCarriesCount ==
    (ReaderFailure = "LargeStructureError" /\ req.pc = "done") =>
        UserMessages = << MsgTooLarge(MAX_NUMBER_OF_ATOMS,
                                      NumAtoms(req.filecontent.structure)) >>

\* The prediction stage failed after a successful featurization.
PredictionStageFailed ==
    /\ Returned("_featurize_single")
    /\ Raised("predictions") \/ Raised("get_explanations")
    /\ req.pc \notin {"core_pred", "core_expl"}

\* C4: a failure of predictions or get_explanations after a successful
\* featurization is reported to the user as a prediction failure: the one
\* message shown is the prediction handler's, and it is not the message of a
\* featurization failure.
C4_PredictionFailureReported ==
    (PredictionStageFailed /\ req.pc = "done") =>
        /\ UserMessages = <<MsgPredictionFailed>>
        /\ MsgPredictionFailed # MsgFeaturizationFailed

\* The typed failure of the live path this request ran into, as its reason tag.
TypedFailure ==
    CASE ReaderFailure = "UnknownFormatError" -> "unknownformat"
      [] ReaderFailure = "OverlapError" -> "overlap"
      [] ReaderFailure = "LargeStructureError" -> "toolarge"
      [] Raised("_featurize_single") -> "featurizationexception"
      [] PredictionStageFailed -> "predictionexception"
      [] OTHER -> "none"

\* C5: a request of the live path that ran into a typed failure has, when it
\* ends, logged that failure's reason tag through logme exactly once and
\* shown exactly one message.
C5_TypedFailureLoggedOnce ==
    (req.route \in LiveRoutes /\ req.pc = "done" /\ TypedFailure # "none") =>
        /\ Count(req.logs, TypedFailure) = 1
        /\ Len(UserMessages) = 1

\* C6: every request of the three pipeline routes ends with a rendered page
\* or a redirect; no exception escapes the route handler.
C6_NoExceptionEscapes ==
    (req.route \in FlaskRoutes /\ req.pc = "done") =>
        /\ req.response \in {"render", "redirect"}
        /\ req.response # "escaped"

\* Whether a formatted message contains the piece x.
Carries(msg, x) == \E i \in 1..Len(msg) : msg[i] = x

\* Loading an artifact of the precomputed id failed.
PrecomputedLoadFailed ==
    /\ req.route = "process_precomputed"
    /\ Raised("CifParser") \/ Raised("load_pickle")

\* C7: when the structure file or the payload of a precomputed id cannot be
\* loaded, no bundle is assembled and the one message shown carries the id
\* and the underlying cause.
C7_LoadFailureCarriesId ==
    (PrecomputedLoadFailed /\ req.pc = "done") =>
        /\ req.outcome = "raised"
        /\ ~Called("get_json_for_visualizer")
        /\ Len(req.flashes) = 1
        /\ Carries(req.flashes[1], req.name)

\* The level the latest assignment of set_feature_importance_level stored,
\* the start-up default when there was none.
LatestLevel ==
    IF lastStored = "none" THEN InitialApproximate ELSE APPROXIMATE_MAPPING[lastStored]

\* A step in which the core function calls get_explanations.
ExplainCall == req.pc = "core_expl" /\ req'.pc # "core_expl"

\* C8 as stated: once a POST with a valid preset has completed, every
\* get_explanations call made before the next assignment is passed the
\* mapped value of that preset.
C8_AfterCompletedPost ==
    [][ (ExplainCall /\ lastCompleted # "none" /\ ~changedSince) =>
            req'.explain_level = APPROXIMATE_MAPPING[lastCompleted] ]_vars

\* C8 amended: every get_explanations call is passed the APPROXIMATE_MAPPING
\* value of the preset of the latest assignment made by a POST (the start-up
\* default before any), whichever request calls and whenever it began; after
\* a completed POST that is its preset until the next assignment, unless
\* another preset was assigned between this POST's assignment and its
\* completion.
C8_ExplainUsesLatestLevel ==
    [][ ExplainCall =>
          /\ req'.explain_level = LatestLevel
          /\ (lastCompleted # "none" /\ ~changedSince /\ lastStored = lastCompleted)
                => req'.explain_level = APPROXIMATE_MAPPING[lastCompleted] ]_vars

\* C8 witness: a POST has completed, no assignment followed, and the
\* get_explanations call just made was passed the mapped value of its preset.
C8_Witness ==
    /\ req.pc = "core_asm"
    /\ Returned("get_explanations")
    /\ lastCompleted # "none"
    /\ ~changedSince
    /\ setResponse = [method |-> "POST", samples |-> lastCompleted, status |-> "204"]
    /\ req.explain_level = APPROXIMATE_MAPPING[lastCompleted]
    /\ req.explain_level # InitialApproximate

\* The primitive cell a returned bundle was built from.
BundlePrimitive == req.result.raw_code

\* Row i of positions, every component taken % 1.0 and the row then
\* multiplied with the lattice: the refolded Cartesian position the block
\* must list.
RefoldedCartesian(positions, lattice, i) ==
    [j \in 1..3 |-> FloatMod1(positions[i][1]) * lattice[1][j]
                    + FloatMod1(positions[i][2]) * lattice[2][j]
                    + FloatMod1(positions[i][3]) * lattice[3][j]]

\* C9: in every bundle either core function returns, for a primitive cell of
\* N atoms the crystal-file block has exactly N + 7 lines: 'CRYSTAL',
\* 'PRIMVEC', the three primitive lattice vectors, 'PRIMCOORD', the count line
\* '<N> 1', then for each atom in primitive order the line
\* 'atomic_number x y z' of its refolded Cartesian position.
C9_XsfLayout ==
    req.outcome = "returned" =>
        LET p == BundlePrimitive
            n == Len(p.primitive_types)
            xsf == req.result.xsfstructure
        IN /\ Len(xsf) = n + 7
           /\ xsf[1] = <<"CRYSTAL">>
           /\ xsf[2] = <<"PRIMVEC">>
           /\ \A k \in 1..3 :
                xsf[2 + k] = << Str(p.primitive_lattice[k][1]),
                                Str(p.primitive_lattice[k][2]),
                                Str(p.primitive_lattice[k][3]) >>
           /\ xsf[6] = <<"PRIMCOORD">>
           /\ xsf[7] = << Str(n), "1" >>
           /\ \A i \in 1..n :
                xsf[7 + i] =
                    << Str(p.primitive_types[i]),
                       Str(RefoldedCartesian(p.primitive_positions, p.primitive_lattice, i)[1]),
                       Str(RefoldedCartesian(p.primitive_positions, p.primitive_lattice, i)[2]),
                       Str(RefoldedCartesian(p.primitive_positions, p.primitive_lattice, i)[3]) >>

\* C9 witness: a returned bundle whose primitive cell has two atoms, one of
\* them outside the principal cell, and whose block has nine lines.
C9_Witness ==
    /\ req.outcome = "returned"
    /\ Len(BundlePrimitive.primitive_types) = 2
    /\ \E i \in 1..2 : BundlePrimitive.primitive_positions[i][1] < 0
    /\ Len(req.result.xsfstructure) = 9

\* The conventional (input) structure a request's bundle was built from.
InputStructure ==
    IF req.route = "process_precomputed"
    THEN PrecomputedStructure(req.name)
    ELSE req.filecontent.structure

\* Row i of positions multiplied with the lattice.
Cartesian(positions, lattice, i) ==
    [j \in 1..3 |-> positions[i][1] * lattice[1][j]
                    + positions[i][2] * lattice[2][j]
                    + positions[i][3] * lattice[3][j]]

\* The table has one row per atom, and row i is the chemical symbol of the
\* i-th atomic number followed by the i-th of the given positions.
RowsFollow(table, numbers, position(_)) ==
    /\ Len(table) = Len(numbers)
    /\ \A i \in 1..Len(numbers) :
         table[i] = << chemical_symbols(numbers[i]),
                       position(i)[1], position(i)[2], position(i)[3] >>

\* C10: in every returned bundle, row i of each atom table carries the
\* chemical symbol of the i-th atomic number of its representation and that
\* representation's i-th position (the fractional one in the scaled tables,
\* its product with the lattice in the Cartesian tables), and the i-th atom
\* line of the crystal-file block pairs the i-th primitive atomic number with
\* the i-th refolded position; every view has exactly one row per atom.
C10_RowsFollowAtoms ==
    req.outcome = "returned" =>
        LET c == InputStructure
            p == BundlePrimitive
            b == req.result
        IN /\ \E q \in PrimitiveCandidates(c) :
                /\ p.primitive_types = q.atomic_numbers
                /\ p.primitive_positions = q.scaled_coords
                /\ p.primitive_lattice = q.cell
           /\ RowsFollow(b.inputstructure_atoms_scaled, c.atomic_numbers,
                         LAMBDA i : c.scaled_coords[i])
           /\ RowsFollow(b.inputstructure_atoms_cartesian, c.atomic_numbers,
                         LAMBDA i : Cartesian(c.scaled_coords, c.cell, i))
           /\ RowsFollow(b.atoms_scaled, p.primitive_types,
                         LAMBDA i : p.primitive_positions[i])
           /\ RowsFollow(b.atoms_cartesian, p.primitive_types,
                         LAMBDA i : Cartesian(p.primitive_positions, p.primitive_lattice, i))
           /\ Len(b.xsfstructure) = 7 + Len(p.primitive_types)
           /\ \A i \in 1..Len(p.primitive_types) :
                /\ b.xsfstructure[7 + i][1] = Str(p.primitive_types[i])
                /\ \A j \in 1..3 :
                     b.xsfstructure[7 + i][1 + j] =
                         Str(RefoldedCartesian(p.primitive_positions,
                                               p.primitive_lattice, i)[j])

\* C10 witness: a returned bundle of an uploaded two-atom cell with two
\* different elements that was not reduced, whose second rows are labelled
\* with the second atom's symbol.
C10_Witness ==
    /\ req.outcome = "returned"
    /\ req.route = "process_structure"
    /\ NumAtoms(InputStructure) = 2
    /\ InputStructure.atomic_numbers[1] # InputStructure.atomic_numbers[2]
    /\ Len(req.result.atoms_scaled) = 2
    /\ req.result.atoms_scaled[2][1] = chemical_symbols(InputStructure.atomic_numbers[2])
    /\ req.result.inputstructure_atoms_cartesian[2][1]
           = chemical_symbols(InputStructure.atomic_numbers[2])

\* C11: in every returned bundle the fractional table, the Cartesian table and
\* the atomic numbers have the same number of entries within each
\* representation: the conventional one (inputstructure_atoms_scaled,
\* inputstructure_atoms_cartesian, the input's atomic numbers and positions)
\* and the primitive one (atoms_scaled, atoms_cartesian, the primitive types,
\* positions, symbols and Cartesian positions, and the refolded positions
\* counted by the count line and listed by the atom lines of the block).
C11_EqualCardinality ==
    req.outcome = "returned" =>
        LET c == InputStructure
            p == BundlePrimitive
            b == req.result
        IN /\ Len(c.scaled_coords) = Len(c.atomic_numbers)
           /\ Len(b.inputstructure_atoms_scaled) = Len(c.atomic_numbers)
           /\ Len(b.inputstructure_atoms_cartesian) = Len(c.atomic_numbers)
           /\ Len(p.primitive_positions) = Len(p.primitive_types)
           /\ Len(p.primitive_positions_cartesian) = Len(p.primitive_types)
           /\ Len(p.primitive_symbols) = Len(p.primitive_types)
           /\ Len(b.atoms_scaled) = Len(p.primitive_types)
           /\ Len(b.atoms_cartesian) = Len(p.primitive_types)
           /\ b.xsfstructure[7] = << Str(Len(p.primitive_types)), "1" >>
           /\ Len(b.xsfstructure) - 7 = Len(p.primitive_types)

\* C11 witness: a returned bundle whose conventional cell has two atoms and
\* whose primitive cell has one, every table of a representation having that
\* representation's number of rows.
C11_Witness ==
    /\ req.outcome = "returned"
    /\ NumAtoms(InputStructure) = 2
    /\ Len(BundlePrimitive.primitive_types) = 1
    /\ Len(req.result.inputstructure_atoms_scaled) = 2
    /\ Len(req.result.inputstructure_atoms_cartesian) = 2
    /\ Len(req.result.atoms_scaled) = 1
    /\ Len(req.result.atoms_cartesian) = 1

\* The representative in [0, 1) of the real x modulo 1.
Principal(x) == x % One

\* C12: every component of the primitive positions, negative ones and ones
\* of 1 or more included, is refolded by % 1.0 to a value that lies in [0, 1)
\* and differs from it by an integer; the refolding is componentwise and
\* precedes the product with the primitive lattice, so the atom lines of the
\* crystal-file block list the lattice product of those representatives.
C12_RefoldedInUnitCell ==
    req.outcome = "returned" =>
        LET positions == BundlePrimitive.primitive_positions
            lattice == BundlePrimitive.primitive_lattice
            refolded == Mod1(positions)
        IN \A i \in 1..Len(positions) :
             /\ \A j \in 1..3 :
                  /\ 0 <= refolded[i][j]
                  /\ refolded[i][j] < One
                  /\ (positions[i][j] - refolded[i][j]) % One = 0
             /\ SubSeq(req.result.xsfstructure[7 + i], 2, 4) =
                  [j \in 1..3 |->
                      Str(Principal(positions[i][1]) * lattice[1][j]
                          + Principal(positions[i][2]) * lattice[2][j]
                          + Principal(positions[i][3]) * lattice[3][j])]

\* The fields of a bundle that the coordinate transformation and the
\* assembly produce.
AssembledFields ==
    { "raw_code", "inputstructure_cell_vectors", "inputstructure_atoms_scaled",
      "inputstructure_atoms_cartesian", "atoms_scaled", "atoms_cartesian",
      "direct_vectors", "xsfstructure" }

\* The core function has ended.
CoreEnded == req.pc \in {"route_end", "done"} /\ req.outcome # "none"

\* C13: for the same parsed structure and primitive cell the two core
\* functions assemble the same raw_code, cell-vector table, atom tables,
\* direct_vectors and crystal-file block, and a call whose assembly raised an
\* exception ends, in either path, with that exception reaching the caller.
C13_PathsEquivalent ==
    /\ req.outcome = "returned" =>
         \E q \in PrimitiveCandidates(InputStructure) :
             LET live == AssemblyLocals(tuple_from_pymatgen(InputStructure),
                                        get_json_for_visualizer(q), 0, 0)
                 precomputed == PrecomputedAssemblyLocals(
                                    tuple_from_pymatgen(InputStructure),
                                    get_json_for_visualizer(q), 0, 0)
             IN \A f \in AssembledFields :
                    /\ live[f] = precomputed[f]
                    /\ req.result[f] = live[f]
    /\ (CoreEnded /\ req.assembly_exc # NoExc) =>
         /\ req.outcome = "raised"
         /\ req.exc = req.assembly_exc

\* C14: every elapsed time the pipeline computes is the reading of the clock
\* at the end of the stage minus the reading at its start, hence not
\* negative: the parsing time of either path (the local and the value
\* logged), the featurization and the prediction time logged by the live
\* path, and the compute_time of every returned bundle.
C14_ElapsedNonNegative ==
    /\ req.pc \in {"core_feat", "pre_pickle"} =>
         /\ req.locals.parsing_time = req.clock - req.locals.start_time
         /\ req.locals.parsing_time >= 0
         /\ req.debug = << "Successfully read structure in {}", req.locals.parsing_time >>
    /\ req.pc = "core_pred" =>
         /\ req.debug = << "Featurization completed in {}",
                           req.clock - req.locals.feat_start >>
         /\ req.debug[2] >= 0
    /\ req.pc = "core_asm" =>
         /\ req.debug = << "Prediction done in {}",
                           req.clock - req.locals.prediction_start >>
         /\ req.debug[2] >= 0
    /\ req.outcome = "returned" => req.result.compute_time \in 0..MaxElapsed

\* The 15 fields of an output bundle.
BundleFields ==
    { "raw_code", "prediction_labels", "metal_indices", "predictions_output",
      "featurization_output", "inputstructure_cell_vectors",
      "inputstructure_atoms_scaled", "inputstructure_atoms_cartesian",
      "atoms_scaled", "direct_vectors", "atoms_cartesian", "compute_time",
      "model_version", "xsfstructure", "feature_values" }

\* The collaborators whose results the bundle of a route is built from.
Stages ==
    IF req.route = "process_precomputed"
    THEN {"CifParser", "load_pickle", "get_json_for_visualizer"}
    ELSE {"get_structure_tuple", "_featurize_single", "predictions",
          "get_explanations", "get_json_for_visualizer"}

\* A stage failed and its handler let the core function go on.
FailureContained ==
    \/ Raised("predictions")
    \/ Raised("get_explanations")
    \/ req.route = "process_precomputed" /\ req.assembly_exc # NoExc

\* C15: a core function that returns has a bundle of all 15 fields, every
\* stage of this call has returned and its assembly has not raised, and the
\* fields were computed from this call's structure; a call in which
\* predictions or get_explanations raised, or in which the assembly of the
\* precomputed path raised, ends with an exception and without a bundle.
C15_NoPartialBundle ==
    /\ req.outcome = "returned" =>
         /\ DOMAIN req.result = BundleFields
         /\ \A stage \in Stages : Returned(stage)
         /\ req.assembly_exc = NoExc
         /\ req.result.metal_indices = MetalIndices(InputStructure)
         /\ req.result.feature_values = FeatureBundle(InputStructure).feature_value_dict
         /\ req.result.prediction_labels = "prediction_labels"
         /\ req.result.predictions_output = "predictions_output"
         /\ req.result.featurization_output = "featurization_output"
         /\ req.result.inputstructure_cell_vectors = VectorTable(InputStructure.cell)
         /\ req.result.model_version = MODEL_VERSION
    /\ (CoreEnded /\ FailureContained) =>
         /\ req.outcome = "raised"
         /\ req.result = NoLocals

\* C15 witness: predictions raised, the handler logged it and went on, the
\* assembly ran to its end, and the call ended in the return statement with
\* UnboundLocalError for prediction_labels.
C15_Witness ==
    /\ CoreEnded
    /\ Raised("predictions")
    /\ Returned("get_json_for_visualizer")
    /\ req.assembly_exc = NoExc
    /\ req.logs = <<"predictionexception">>
    /\ req.outcome = "raised"
    /\ req.exc = UnboundLocal("prediction_labels")
    /\ req.result = NoLocals

\* A set_feature_importance_level request has just been answered with a
\* redirect: a GET, or a POST whose preset is not a key of the mapping.
RedirectAnswered == setResponse' # setResponse /\ setResponse'.status = "redirect"

\* A step of a pipeline request.
PipelineStep == req' # req

\* GETs and POSTs with an unknown preset leave the level alone and end in a
\* redirect, and no step of a pipeline request writes the level.
OnlyValidPostsWrite ==
    /\ [][ RedirectAnswered =>
             /\ DEFAULT_APPROXIMATE' = DEFAULT_APPROXIMATE
             /\ setResponse'.method \in {"GET", "POST"}
             /\ setResponse'.samples \notin DOMAIN APPROXIMATE_MAPPING ]_vars
    /\ [][ (setResponse' # setResponse /\ setResponse'.method = "GET")
                => RedirectAnswered ]_vars
    /\ [][ (setResponse' # setResponse /\ setResponse'.method = "POST"
             /\ setResponse'.samples \notin DOMAIN APPROXIMATE_MAPPING)
                => RedirectAnswered ]_vars
    /\ [][ PipelineStep => DEFAULT_APPROXIMATE' = DEFAULT_APPROXIMATE ]_vars

\* C16 as stated: under every interleaving the level is its initial default
\* or the mapped value of the most recently completed valid preset; GETs and
\* POSTs with an unknown preset leave it alone and redirect; no pipeline
\* request writes it.
C16_LevelOfLastCompleted ==
    /\ [](DEFAULT_APPROXIMATE \in
             {InitialApproximate}
             \cup { APPROXIMATE_MAPPING[p] :
                      p \in {lastCompleted} \cap DOMAIN APPROXIMATE_MAPPING })
    /\ OnlyValidPostsWrite

\* C16 amended: under every interleaving the level is its initial default
\* until a valid POST assigns it, and from then on the mapped value of the
\* preset assigned last, whether that POST has completed or is still in
\* flight; it is the value of the most recently completed preset whenever no
\* assignment followed that completion and the completed POST was the last
\* to assign.  GETs and POSTs with an unknown preset leave it alone and
\* redirect; no pipeline request writes it.
C16_LevelOfLatestAssignment ==
    /\ [](DEFAULT_APPROXIMATE = LatestLevel)
    /\ []((lastCompleted # "none" /\ ~changedSince /\ lastStored = lastCompleted)
            => DEFAULT_APPROXIMATE = APPROXIMATE_MAPPING[lastCompleted])
    /\ [][ RedirectAnswered => UNCHANGED lastStored ]_vars
    /\ [][ PipelineStep => UNCHANGED lastStored ]_vars
    /\ OnlyValidPostsWrite

\* C16 witness: a valid POST has completed, a POST with an unknown preset was
\* then answered with a redirect while a pipeline request had passed its
\* get_explanations call, and the level is still the completed preset's.
C16_Witness ==
    /\ lastCompleted # "none"
    /\ ~changedSince
    /\ setResponse = [method |-> "POST", samples |-> "<none>", status |-> "redirect"]
    /\ DEFAULT_APPROXIMATE = APPROXIMATE_MAPPING[lastCompleted]
    /\ req.pc = "core_asm"
    /\ Returned("get_explanations")
    /\ req.explain_level = DEFAULT_APPROXIMATE

====
